---- MODULE Spec2Model ----
(***************************************************************************)
(* TradeBot technical-analysis orchestration.                              *)
(*                                                                         *)
(* The model follows the asyncio tasks of backend/app.py and the request   *)
(* handlers of the two analysis services.  A coroutine runs without        *)
(* interruption between two awaits, so every action below is one such      *)
(* stretch: from the point where a task is resumed to the next await it    *)
(* reaches.  save_to_database contains no await, so the whole pipeline     *)
(* after the candle fetch (length check, indicators, patterns, synthesis,  *)
(* writes, commit or rollback) is part of the action that resumes the run. *)
(***************************************************************************)
EXTENDS Integers, Sequences, FiniteSets, TLC

VARIABLES
    sweep,       \* the task periodic_technical_analysis (app.py:68-106)
    cancelRequested, \* lifespan shutdown has called analysis_task.cancel()
    attempted,   \* history: indices of the pairs whose analysis the current sweep has started
    outage,      \* history: no candle fetch of the current sweep has delivered a series
    ondemand,    \* one POST /analyze request on the controller (active service)
    legacy,      \* one POST /analyze request on app/routers (process_symbol)
    store,       \* committed rows of the three analysis tables, in commit order
    openConns,   \* connections opened by save_to_database and not closed
    call         \* the last call of a synchronous function or read handler: name, arguments, result

vars == <<sweep, cancelRequested, attempted, outage, ondemand, legacy, store, openConns, call>>

---------------------------------------------------------------------------
(* Bounds of the model *)

\* rows the three tables hold together; an insert into a full store raises
MaxStore == 4
\* connections the database server accepts; connect() raises beyond it
MaxConns == 1
\* patterns handed to one call of generate_analysis
MaxPatterns == 2
\* rows of the table a read handler queries
MaxTable == 2
\* longest series handed to the indicator functions and the detectors
MaxSeries == 51
\* single-candle highs that stand out of an input series
MaxSpikes == 3

---------------------------------------------------------------------------
(* Program constants *)

Symbols == <<"BTCUSDT", "ETHUSDT", "DOGEUSDT">>
SweepTimeframes == <<"5m", "1h", "4h">>
SupportedTimeframes == <<"5m", "15m", "1h", "4h", "1d">>

MinCandles == 10
PatternMinCandles == 20
RateLimitSleep == 2
SweepSleep == 300
BackoffSleep == 60

Range(s) == {s[k] : k \in DOMAIN s}

\* the nested for loops: symbols outer, timeframes inner
NumSweepPairs == Len(Symbols) * Len(SweepTimeframes)

\* a single loop that advances both lists together
SweepPairZipped(k) ==
    <<Symbols[((k - 1) % Len(Symbols)) + 1],
      SweepTimeframes[((k - 1) % Len(SweepTimeframes)) + 1]>>

SweepPair(k) ==
    <<Symbols[((k - 1) \div Len(SweepTimeframes)) + 1],
      SweepTimeframes[((k - 1) % Len(SweepTimeframes)) + 1]>>

\* the matrix the loops of the task go through
SweepMatrix == {<<s, t>> : s \in Range(Symbols), t \in Range(SweepTimeframes)}

\* the matrix the service object is configured with
FullMatrix == {<<s, t>> : s \in Range(Symbols), t \in Range(SupportedTimeframes)}

---------------------------------------------------------------------------
(* Inputs *)

\* pairs an on-demand caller asks for: one the sweep covers, one it does not
OnDemandPairs == {<<"BTCUSDT", "5m">>, <<"BTCUSDT", "15m">>}

NoPair == <<"-", "-">>
NoCall == [fn |-> "none", arg |-> <<>>, out |-> <<>>]
NoData == [err |-> FALSE, n |-> 0, nearLow |-> FALSE, nearHigh |-> FALSE]

\* what a candle fetch can deliver: an error (non-200, network failure,
\* malformed payload) or a series, of which the model keeps the length and
\* the two facts detect_patterns tests on the last close
FetchResults ==
    { [err |-> TRUE, n |-> 0, nearLow |-> FALSE, nearHigh |-> FALSE] } \cup
    { [err |-> FALSE, n |-> c, nearLow |-> FALSE, nearHigh |-> FALSE] : c \in {0, 9, 10} } \cup
    { [err |-> FALSE, n |-> 20, nearLow |-> TRUE, nearHigh |-> h] : h \in BOOLEAN }

---------------------------------------------------------------------------
(* The analysis pipeline of the active service *)

Min(a, b) == IF a < b THEN a ELSE b

\* detect_patterns: runs only on 20 candles or more; support test first
DetectPatterns(d) ==
    IF d.n >= PatternMinCandles
    THEN (IF d.nearLow THEN <<"support_test">> ELSE <<>>) \o
         (IF d.nearHigh THEN <<"resistance_test">> ELSE <<>>)
    ELSE <<>>

\* the INSERT statements of one save, in program order: one indicator row,
\* one row per pattern, one analysis row
Rows(pair, pats) ==
    <<[pair |-> pair, kind |-> "indicator", ptype |-> "-"]>> \o
    [k \in 1..Len(pats) |-> [pair |-> pair, kind |-> "pattern", ptype |-> pats[k]]] \o
    <<[pair |-> pair, kind |-> "analysis", ptype |-> "-"]>>

\* a row as stored: tagged with the transaction that wrote it and with the
\* number of rows that transaction set out to write
NextBatch(st) == IF st = <<>> THEN 1 ELSE st[Len(st)].batch + 1
Stamp(st, rows) ==
    [k \in 1..Len(rows) |->
        [pair |-> rows[k].pair, kind |-> rows[k].kind, ptype |-> rows[k].ptype,
         batch |-> NextBatch(st), rows |-> Len(rows)]]

\* where the save of a run on series d can break: 0 = connect, k in 1..L =
\* the k-th INSERT, L+1 = commit, L+2 = nowhere (L rows to write).  A run
\* that ends before its save has the single point 0.
FailPoints(d) ==
    IF d.err \/ d.n < MinCandles THEN {0}
    ELSE 0..(Len(Rows(NoPair, DetectPatterns(d))) + 2)

\* psycopg2.connect raises when told to, or when the server is out of connections
ConnectFails(oc, f) == f = 0 \/ oc >= MaxConns

\* the first statement of the save that raises (Len(rows)+2 when none does);
\* an INSERT into a full store raises
FirstFailure(st, rows, f) ==
    LET L    == Len(rows)
        room == MaxStore - Len(st)
        full == IF room < L THEN room + 1 ELSE L + 2
        told == IF f \in 1..(L + 1) THEN f ELSE L + 2
    IN  Min(full, told)

\* a connection in autocommit mode: every INSERT that went through stays
EndTransactionAutocommit(st, staged, ok) == st \o staged

\* leaving "with conn": commit when the block ended normally, rollback when
\* it raised
EndTransaction(st, staged, ok) == IF ok THEN st \o staged ELSE st

\* save_to_database; the connection is opened and not closed
SaveToDatabase(st, oc, rows, f) ==
    IF ConnectFails(oc, f)
    THEN [store |-> st, openConns |-> oc, raised |-> TRUE]
    ELSE LET L      == Len(rows)
             k      == FirstFailure(st, rows, f)
             staged == SubSeq(Stamp(st, rows), 1, Min(k - 1, L))
         IN  [store     |-> EndTransaction(st, staged, k = L + 2),
              openConns |-> oc + 1,
              raised    |-> k # L + 2]

\* the calls analyze_symbol and process_symbol make once the fetch has
\* returned, in program order, by the stage of the run they carry out
AfterFetch == <<"COMPUTING_INDICATORS", "DETECTING_PATTERNS", "SYNTHESIZING", "PERSISTING">>

\* analyze_symbol from the point where the fetch has returned; stages lists
\* what the run goes through from there and how it ends
AnalyzeSymbol(d, pair, st, oc, f) ==
    IF d.err
    THEN [raised |-> TRUE, cause |-> "fetch", store |-> st, openConns |-> oc,
          stages |-> <<"FAILED">>]
    ELSE IF d.n < MinCandles
    THEN [raised |-> TRUE, cause |-> "short", store |-> st, openConns |-> oc,
          stages |-> <<"FAILED">>]
    ELSE LET s == SaveToDatabase(st, oc, Rows(pair, DetectPatterns(d)), f)
         IN  [raised |-> s.raised, cause |-> IF s.raised THEN "persist" ELSE "none",
              store |-> s.store, openConns |-> s.openConns,
              stages |-> AfterFetch \o <<IF s.raised THEN "FAILED" ELSE "DONE">>]

---------------------------------------------------------------------------
(* The recurring task *)

StartPair(k) == [pc |-> "fetching", i |-> k, dur |-> 0, data |-> NoData]
Sleeping(k, d) == [pc |-> "sleeping", i |-> k, dur |-> d, data |-> NoData]
Terminated(exc, k) ==
    [pc |-> IF exc = "CancelledError" THEN "cancelled" ELSE "crashed",
     i |-> k, dur |-> 0, data |-> NoData]

\* a loop that goes back to the first pair instead of on to the next
NextIterationRestarts(k) ==
    IF k < NumSweepPairs THEN StartPair(1) ELSE Sleeping(k, SweepSleep)

\* a loop that ends every sweep with the retry delay
NextIterationBacksOff(k) ==
    IF k < NumSweepPairs THEN StartPair(k + 1) ELSE Sleeping(k, BackoffSleep)

\* the for loops move on; after the last pair the sweep is over
NextIteration(k) ==
    IF k < NumSweepPairs THEN StartPair(k + 1) ELSE Sleeping(k, SweepSleep)

\* variants of the pair's handler: one that lets every exception through, and
\* a bare "except:" that also swallows cancellation
PairHandlerCatchesNone(exc) == FALSE
PairHandlerCatchesAll(exc) == TRUE

\* "except Exception" of the pair and of the sweep: CancelledError is a
\* BaseException and passes both
PairHandlerCatches(exc) == exc = "Exception"
SweepHandlerCatches(exc) == exc = "Exception"

\* a task body without handlers: whatever is raised ends the task
OnRaiseUnhandled(exc, s) == Terminated(exc, s.i)

\* where an exception raised at the task's current await (or by the run it
\* resumes) takes the task: the analysis and the 2 s sleep are inside both
\* try blocks, the 300 s sleep inside the outer one, the 60 s sleep inside none
OnRaise(exc, s) ==
    LET inPair  == s.pc \in {"fetching", "ready"} \/ (s.pc = "sleeping" /\ s.dur = RateLimitSleep)
        inSweep == inPair \/ (s.pc = "sleeping" /\ s.dur = SweepSleep)
    IN  IF inPair /\ PairHandlerCatches(exc) THEN NextIteration(s.i)
        ELSE IF inSweep /\ SweepHandlerCatches(exc) THEN Sleeping(s.i, BackoffSleep)
        ELSE Terminated(exc, s.i)

\* history kept along a step of the task that leads to state s2
Track(s2) ==
    IF s2.pc = "fetching"
    THEN IF s2.i = 1 THEN <<1>> ELSE Append(attempted, s2.i)
    ELSE attempted

SweepStart ==
    /\ sweep.pc = "created"
    /\ sweep' = StartPair(1)
    /\ attempted' = <<1>>
    /\ outage' = TRUE
    /\ UNCHANGED <<cancelRequested, ondemand, legacy, store, openConns, call>>

SweepFetchCompletes ==
    /\ sweep.pc = "fetching"
    /\ \E d \in FetchResults : sweep' = [sweep EXCEPT !.pc = "ready", !.data = d]
    /\ UNCHANGED <<cancelRequested, attempted, outage, ondemand, legacy, store, openConns, call>>

SweepResume ==
    /\ sweep.pc = "ready"
    /\ \E f \in FailPoints(sweep.data) :
        LET r == AnalyzeSymbol(sweep.data, SweepPair(sweep.i), store, openConns, f)
        IN  /\ sweep' = IF r.raised THEN OnRaise("Exception", sweep)
                        ELSE Sleeping(sweep.i, RateLimitSleep)
            /\ store' = r.store
            /\ openConns' = r.openConns
    /\ attempted' = Track(sweep')
    /\ outage' = (outage /\ sweep.data.err)
    /\ UNCHANGED <<cancelRequested, ondemand, legacy, call>>

SweepWake ==
    /\ sweep.pc = "sleeping"
    /\ sweep' = IF sweep.dur = RateLimitSleep THEN NextIteration(sweep.i) ELSE StartPair(1)
    /\ attempted' = Track(sweep')
    /\ outage' = IF sweep.dur = RateLimitSleep THEN outage ELSE TRUE
    /\ UNCHANGED <<cancelRequested, ondemand, legacy, store, openConns, call>>

\* lifespan shutdown: analysis_task.cancel() throws CancelledError into the
\* task at the await where it is suspended
Cancel ==
    /\ ~cancelRequested
    /\ sweep.pc \in {"created", "fetching", "ready", "sleeping"}
    /\ cancelRequested' = TRUE
    /\ sweep' = IF sweep.pc = "created" THEN Terminated("CancelledError", sweep.i)
                ELSE OnRaise("CancelledError", sweep)
    /\ attempted' = Track(sweep')
    /\ UNCHANGED <<outage, ondemand, legacy, store, openConns, call>>

\* the interpreter finalizes a connection object nothing refers to any more
ReleaseUnreferenced ==
    /\ openConns > 0
    /\ openConns' = openConns - 1
    /\ UNCHANGED <<sweep, cancelRequested, attempted, outage, ondemand, legacy, store, call>>

---------------------------------------------------------------------------
(* POST /analyze/{symbol} on the controller of the active service *)

Idle == [pc |-> "idle", pair |-> NoPair, data |-> NoData,
         status |-> 0, result |-> "none", cause |-> "none", stages |-> <<>>]

AnalyzeRequest ==
    /\ ondemand.pc = "idle"
    /\ \E p \in OnDemandPairs : ondemand' = [Idle EXCEPT !.pc = "fetching", !.pair = p,
                                                       !.stages = <<"FETCHING">>]
    /\ UNCHANGED <<sweep, cancelRequested, attempted, outage, legacy, store, openConns, call>>

AnalyzeFetchCompletes ==
    /\ ondemand.pc = "fetching"
    /\ \E d \in FetchResults : ondemand' = [ondemand EXCEPT !.pc = "ready", !.data = d]
    /\ UNCHANGED <<sweep, cancelRequested, attempted, outage, legacy, store, openConns, call>>

\* the rest of analyze_symbol, then the handler's return or its
\* "raise HTTPException(status_code=500)"
AnalyzeResume ==
    /\ ondemand.pc = "ready"
    /\ \E f \in FailPoints(ondemand.data) :
        LET r == AnalyzeSymbol(ondemand.data, ondemand.pair, store, openConns, f)
        IN  /\ ondemand' = [ondemand EXCEPT
                                !.pc = "responded",
                                !.data = NoData,
                                !.status = IF r.raised THEN 500 ELSE 200,
                                !.result = IF r.raised THEN "none" ELSE "analysis",
                                !.cause = r.cause,
                                !.stages = @ \o r.stages]
            /\ store' = r.store
            /\ openConns' = r.openConns
    /\ UNCHANGED <<sweep, cancelRequested, attempted, outage, legacy, call>>

AnalyzeReturn ==
    /\ ondemand.pc = "responded"
    /\ ondemand' = Idle
    /\ UNCHANGED <<sweep, cancelRequested, attempted, outage, legacy, store, openConns, call>>

---------------------------------------------------------------------------
(* POST /analyze/{symbol} on app/routers, served by process_symbol *)

\* a peak needs an index i with 10 <= i < n - 10; the series of FetchResults
\* have at most 20 candles, so neither detector finds one
LegacyDetectPatterns(d) == <<>>

\* the session writes at commit: 1..L = the k-th INSERT raises, L+1 = the
\* commit itself, L+2 = nothing raises
LegacyFailPoints(d) ==
    IF d.err \/ d.n = 0 THEN {1}
    ELSE 1..(Len(Rows(NoPair, LegacyDetectPatterns(d))) + 2)

\* save_to_database of the legacy service: db.commit(), or db.rollback()
\* in an except block that prints and does not raise
LegacySaveToDatabase(st, rows, f) ==
    LET L      == Len(rows)
        k      == FirstFailure(st, rows, f)
        staged == SubSeq(Stamp(st, rows), 1, Min(k - 1, L))
    IN  [store |-> EndTransaction(st, staged, k = L + 2), failed |-> k # L + 2]

\* process_symbol from the point where the fetch has returned: no length
\* check; any exception is printed and None returned.  On an empty frame
\* generate_analysis raises at df['close'].iloc[-1].  save_to_database
\* returns normally whether it committed or rolled back, so the run then
\* ends on the success path with its result.
ProcessSymbol(d, pair, st, f) ==
    IF d.err
    THEN [result |-> "null", cause |-> "fetch", store |-> st, stages |-> <<"FAILED">>]
    ELSE IF d.n = 0
    THEN [result |-> "null", cause |-> "compute", store |-> st,
          stages |-> SubSeq(AfterFetch, 1, 3) \o <<"FAILED">>]
    ELSE LET s == LegacySaveToDatabase(st, Rows(pair, LegacyDetectPatterns(d)), f)
         IN  [result |-> "analysis", cause |-> IF s.failed THEN "persist" ELSE "none",
              store |-> s.store, stages |-> AfterFetch \o <<"DONE">>]

LegacyRequest ==
    /\ legacy.pc = "idle"
    /\ \E p \in OnDemandPairs : legacy' = [Idle EXCEPT !.pc = "fetching", !.pair = p,
                                                     !.stages = <<"FETCHING">>]
    /\ UNCHANGED <<sweep, cancelRequested, attempted, outage, ondemand, store, openConns, call>>

LegacyFetchCompletes ==
    /\ legacy.pc = "fetching"
    /\ \E d \in FetchResults : legacy' = [legacy EXCEPT !.pc = "ready", !.data = d]
    /\ UNCHANGED <<sweep, cancelRequested, attempted, outage, ondemand, store, openConns, call>>

\* the router returns {"message": "Analysis completed ...", "result": result}
LegacyResume ==
    /\ legacy.pc = "ready"
    /\ \E f \in LegacyFailPoints(legacy.data) :
        LET r == ProcessSymbol(legacy.data, legacy.pair, store, f)
        IN  /\ legacy' = [legacy EXCEPT
                              !.pc = "responded",
                              !.data = NoData,
                              !.status = 200,
                              !.result = r.result,
                              !.cause = r.cause,
                              !.stages = @ \o r.stages]
            /\ store' = r.store
    /\ UNCHANGED <<sweep, cancelRequested, attempted, outage, ondemand, openConns, call>>

LegacyReturn ==
    /\ legacy.pc = "responded"
    /\ legacy' = Idle
    /\ UNCHANGED <<sweep, cancelRequested, attempted, outage, ondemand, store, openConns, call>>

---------------------------------------------------------------------------
(* Synthesis: generate_analysis of the two services *)

\* an indicator value as Python holds it: None, a float, or an object of
\* another type (a str).  Indicator floats are integers here; the two EMAs
\* are in half units (201 is 100.5), which the band comparison, being
\* homogeneous, does not notice.
None == [kind |-> "none", v |-> 0]
Num(x) == [kind |-> "num", v |-> x]
Str == [kind |-> "str", v |-> 0]

RsiOversold == 30
RsiOverbought == 70

Signal(t, s, r) == [type |-> t, strength |-> s, reason |-> r]

\* "x is not None" and "if x" (None and 0.0 are falsy)
IsNotNone(x) == x.kind # "none"
Truthy(x) == x.kind = "str" \/ (x.kind = "num" /\ x.v # 0)

\* a comparison of a str with a number raises TypeError
TypeError(ind) == ind.rsi.kind = "str"

\* lines 193-207
RsiSignals(rsi) ==
    IF rsi.v < RsiOversold THEN <<Signal("buy", "strong", "RSI oversold")>>
    ELSE IF rsi.v > RsiOverbought THEN <<Signal("sell", "strong", "RSI overbought")>>
    ELSE <<>>

\* lines 209-226
MacdSignals(macd, signal, above, below) ==
    IF macd.v > signal.v THEN <<Signal("buy", "medium", above)>>
    ELSE <<Signal("sell", "medium", below)>>

\* lines 233-238: the band is one percent of ema_50 on either side
Trend(ema_20, ema_50) ==
    IF IsNotNone(ema_20) /\ IsNotNone(ema_50)
    THEN IF 100 * ema_20.v > 101 * ema_50.v THEN "bullish"
         ELSE IF 100 * ema_20.v < 99 * ema_50.v THEN "bearish"
         ELSE "sideways"
    ELSE "sideways"

\* generate_analysis of the active service; an exception inside its try
\* block gives the fallback result of lines 259-267
GenerateAnalysis(ind, pats) ==
    IF TypeError(ind)
    THEN [raised |-> FALSE, signals |-> <<>>, trend_direction |-> "unknown", risk_level |-> "high"]
    ELSE [raised |-> FALSE,
          signals |->
              (IF IsNotNone(ind.rsi) THEN RsiSignals(ind.rsi) ELSE <<>>) \o
              (IF IsNotNone(ind.macd) /\ IsNotNone(ind.signal)
               THEN MacdSignals(ind.macd, ind.signal,
                                "MACD above signal line", "MACD below signal line")
               ELSE <<>>),
          trend_direction |-> Trend(ind.ema_20, ind.ema_50),
          risk_level |-> "medium"]

\* legacy lines 232-245: no band
LegacyMaSignals(ema_20, ema_50) ==
    IF ema_20.v > ema_50.v
    THEN <<Signal("buy", "medium", "EMA 20 above EMA 50 - upward trend")>>
    ELSE <<Signal("sell", "medium", "EMA 20 below EMA 50 - downward trend")>>

\* _determine_trend: a band of two percent
DetermineTrend(ema_20, ema_50) ==
    IF Truthy(ema_20) /\ Truthy(ema_50)
    THEN IF 100 * ema_20.v > 102 * ema_50.v THEN "bullish"
         ELSE IF 100 * ema_20.v < 98 * ema_50.v THEN "bearish"
         ELSE "sideways"
    ELSE "sideways"

\* _assess_risk: one factor per head_and_shoulders or double_top pattern
RiskFactors(pats) ==
    Len(SelectSeq(pats, LAMBDA t : t \in {"head_and_shoulders", "double_top"}))

AssessRisk(pats) ==
    IF RiskFactors(pats) >= 2 THEN "high"
    ELSE IF RiskFactors(pats) = 1 THEN "medium"
    ELSE "low"

\* generate_analysis of the legacy service; it has no try block
LegacyGenerateAnalysis(ind, pats) ==
    IF TypeError(ind)
    THEN [raised |-> TRUE, signals |-> <<>>, trend_direction |-> "-", risk_level |-> "-"]
    ELSE [raised |-> FALSE,
          signals |->
              (IF Truthy(ind.rsi) THEN RsiSignals(ind.rsi) ELSE <<>>) \o
              (IF Truthy(ind.macd) /\ Truthy(ind.signal)
               THEN MacdSignals(ind.macd, ind.signal,
                                "MACD above signal line - bullish momentum",
                                "MACD below signal line - bearish momentum")
               ELSE <<>>) \o
              (IF Truthy(ind.ema_20) /\ Truthy(ind.ema_50)
               THEN LegacyMaSignals(ind.ema_20, ind.ema_50)
               ELSE <<>>),
          trend_direction |-> DetermineTrend(ind.ema_20, ind.ema_50),
          risk_level |-> AssessRisk(pats)]

\* the arguments of the calls: indicator values at and around every
\* threshold of the two services, absent values, zeros, and a value of the
\* wrong type
RsiValues == {None, Num(0), Num(29), Num(30), Num(70), Num(71), Str}
MacdValues == {None, Num(-1), Num(0), Num(1)}
MacdSignalValues == {None, Num(0), Num(1)}
Ema20Values == {None, Num(0)} \cup {Num(x) : x \in {194, 197, 198, 201, 202, 203, 204, 205}}
Ema50Values == {None, Num(200)}
Indicators ==
    [rsi : RsiValues, macd : MacdValues, signal : MacdSignalValues,
     ema_20 : Ema20Values, ema_50 : Ema50Values]

PatternTypes == {"head_and_shoulders", "double_top", "support_test"}
PatternLists == UNION {[1..n -> PatternTypes] : n \in 0..MaxPatterns}

CallGenerateAnalysis ==
    /\ call = NoCall
    /\ \E ind \in Indicators, pats \in PatternLists :
        call' = [fn  |-> "generate_analysis",
                 arg |-> [ind |-> ind, pats |-> pats],
                 out |-> GenerateAnalysis(ind, pats)]
    /\ UNCHANGED <<sweep, cancelRequested, attempted, outage, ondemand, legacy, store, openConns>>

CallLegacyGenerateAnalysis ==
    /\ call = NoCall
    /\ \E ind \in Indicators, pats \in PatternLists :
        call' = [fn  |-> "legacy_generate_analysis",
                 arg |-> [ind |-> ind, pats |-> pats],
                 out |-> LegacyGenerateAnalysis(ind, pats)]
    /\ UNCHANGED <<sweep, cancelRequested, attempted, outage, ondemand, legacy, store, openConns>>

\* the caller has its result
CallReturns ==
    /\ call # NoCall
    /\ call' = NoCall
    /\ UNCHANGED <<sweep, cancelRequested, attempted, outage, ondemand, legacy, store, openConns>>

---------------------------------------------------------------------------
(* Read handlers of the controller, and the summary of app/routers *)

\* the rows of technical_indicators and of technical_analysis for the
\* requested symbol, in the order of created_at; of a row the model keeps
\* the columns the handlers select on or count
IndicatorRows == [timeframe : Range(SupportedTimeframes)]
AnalysisRows ==
    [timeframe : Range(SupportedTimeframes),
     trend_direction : {"bullish", "bearish", "sideways"}]
Tables(R) == UNION {[1..n -> R] : n \in 0..MaxTable}

Max(S) == CHOOSE x \in S : \A y \in S : y <= x

\* "WHERE timeframe = %s ORDER BY created_at DESC LIMIT 1" and fetchone():
\* the position of the row, 0 for None
FetchLatest(table, tf) ==
    LET ks == {k \in DOMAIN table : table[k].timeframe = tf}
    IN  IF ks = {} THEN 0 ELSE Max(ks)

\* get_indicators and get_analysis have the same body.  The HTTPException
\* with status 404 is raised inside the try block; HTTPException derives
\* from Exception, so the handler's "except Exception" catches it and
\* raises HTTPException(status_code=500) in its place.
GetLatest(table, tf, connected) ==
    IF ~connected
    THEN [connected |-> FALSE, status |-> 500, row |-> 0]
    ELSE LET k == FetchLatest(table, tf)
         IN  IF k = 0
             THEN [connected |-> TRUE, status |-> 500, row |-> 0]
             ELSE [connected |-> TRUE, status |-> 200, row |-> k]

\* the handler's connection is opened by "with get_db_connection() as conn"
\* and, as in save_to_database, not closed
Connects(f) == ~ConnectFails(openConns, f)
AfterConnect(f) == IF Connects(f) THEN openConns + 1 ELSE openConns

GetIndicators ==
    /\ call = NoCall
    /\ \E table \in Tables(IndicatorRows), tf \in Range(SupportedTimeframes), f \in 0..1 :
        /\ call' = [fn  |-> "get_indicators",
                    arg |-> [table |-> table, timeframe |-> tf],
                    out |-> GetLatest(table, tf, Connects(f))]
        /\ openConns' = AfterConnect(f)
    /\ UNCHANGED <<sweep, cancelRequested, attempted, outage, ondemand, legacy, store>>

GetAnalysis ==
    /\ call = NoCall
    /\ \E table \in Tables(AnalysisRows), tf \in Range(SupportedTimeframes), f \in 0..1 :
        /\ call' = [fn  |-> "get_analysis",
                    arg |-> [table |-> table, timeframe |-> tf],
                    out |-> GetLatest(table, tf, Connects(f))]
        /\ openConns' = AfterConnect(f)
    /\ UNCHANGED <<sweep, cancelRequested, attempted, outage, ondemand, legacy, store>>

\* the summary dict: the trend of the latest row of every timeframe that has one
Summary(table) ==
    [tf \in {t \in Range(SupportedTimeframes) : FetchLatest(table, t) # 0} |->
        table[FetchLatest(table, tf)].trend_direction]

Count(summary, trend) == Cardinality({tf \in DOMAIN summary : summary[tf] = trend})

\* a sentiment that gives ties to the bulls
OverallSentimentTiesBullish(summary) ==
    IF Count(summary, "bullish") >= Count(summary, "bearish") THEN "bullish"
    ELSE "bearish"

\* controller lines 185-196
OverallSentiment(summary) ==
    IF Count(summary, "bullish") > Count(summary, "bearish") THEN "bullish"
    ELSE IF Count(summary, "bearish") > Count(summary, "bullish") THEN "bearish"
    ELSE "neutral"

\* _calculate_overall_sentiment of app/routers
CalculateOverallSentiment(summary) ==
    IF Count(summary, "bullish") > Count(summary, "bearish") THEN "bullish"
    ELSE IF Count(summary, "bearish") > Count(summary, "bullish") THEN "bearish"
    ELSE "neutral"

GetAnalysisSummary ==
    /\ call = NoCall
    /\ \E table \in Tables(AnalysisRows), f \in 0..1 :
        /\ call' = [fn  |-> "get_analysis_summary",
                    arg |-> [table |-> table],
                    out |-> IF Connects(f)
                            THEN [status |-> 200, summary |-> Summary(table),
                                  overall_sentiment |-> OverallSentiment(Summary(table))]
                            ELSE [status |-> 500, summary |-> <<>>, overall_sentiment |-> "-"]]
        /\ openConns' = AfterConnect(f)
    /\ UNCHANGED <<sweep, cancelRequested, attempted, outage, ondemand, legacy, store>>

\* the summary of app/routers reads through the session FastAPI injects
LegacyGetAnalysisSummary ==
    /\ call = NoCall
    /\ \E table \in Tables(AnalysisRows) :
        call' = [fn  |-> "legacy_get_analysis_summary",
                 arg |-> [table |-> table],
                 out |-> [status |-> 200, summary |-> Summary(table),
                          overall_sentiment |-> CalculateOverallSentiment(Summary(table))]]
    /\ UNCHANGED <<sweep, cancelRequested, attempted, outage, ondemand, legacy, store, openConns>>

---------------------------------------------------------------------------
(* Indicators of the active service, by the length of the closing series *)

RsiPeriod == 14
MacdSlowSpan == 26
BollingerPeriod == 20
ShortPeriod == 20
LongPeriod == 50

\* Every close of a fetched series is a number, so whether an indicator is a
\* number or NaN is decided by where NaN enters and how it propagates.  A
\* series is modelled by its mask: TRUE where it holds a number, FALSE where
\* it holds NaN.
Closes(n) == [k \in 1..n |-> TRUE]

\* Series.diff(): the first element has no predecessor
Diff(s) == [k \in 1..Len(s) |-> k > 1 /\ s[k] /\ s[k - 1]]

\* Series.where(cond, 0): where the condition is false the element becomes
\* 0, and a comparison with NaN is false
WhereElseZero(s) == [k \in 1..Len(s) |-> TRUE]

\* Series.rolling(window=w).mean() and .std(): a number once w numbers in
\* a row end at the element
Rolling(s, w) ==
    [k \in 1..Len(s) |-> k >= w /\ \A j \in (k - w + 1)..k : s[j]]

\* Series.ewm(span=..).mean(): a number from the first number on
Ewm(s) == [k \in 1..Len(s) |-> \E j \in 1..k : s[j]]

\* element-wise arithmetic of two series
Both(a, b) == [k \in 1..Len(a) |-> a[k] /\ b[k]]

\* float(x.iloc[-1]) if not pd.isna(x.iloc[-1]) else None; iloc[-1] of an
\* empty series raises IndexError, which every caller below catches
Last(s) ==
    IF Len(s) = 0 THEN "IndexError" ELSE IF s[Len(s)] THEN "float" ELSE "None"

OrNone(x) == IF x = "IndexError" THEN "None" ELSE x

CalculateRsi(n) ==
    LET delta == Diff(Closes(n))
        gain  == Rolling(WhereElseZero(delta), RsiPeriod)
        loss  == Rolling(WhereElseZero(delta), RsiPeriod)
    IN  OrNone(Last(Both(gain, loss)))

\* calculate_macd without the length check of line 75
CalculateMacdAnyLength(n) ==
    LET macd   == Both(Ewm(Closes(n)), Ewm(Closes(n)))
        signal == Ewm(macd)
    IN  IF n = 0
        THEN [macd |-> "None", signal |-> "None", histogram |-> "None"]
        ELSE [macd      |-> Last(macd),
              signal    |-> Last(signal),
              histogram |-> Last(Both(macd, signal))]

CalculateMacd(n) ==
    LET macd   == Both(Ewm(Closes(n)), Ewm(Closes(n)))
        signal == Ewm(macd)
    IN  IF n < MacdSlowSpan
        THEN [macd |-> "None", signal |-> "None", histogram |-> "None"]
        ELSE [macd      |-> Last(macd),
              signal    |-> Last(signal),
              histogram |-> Last(Both(macd, signal))]

CalculateBollingerBands(n) ==
    LET sma == Rolling(Closes(n), BollingerPeriod)
        std == Rolling(Closes(n), BollingerPeriod)
    IN  IF n < BollingerPeriod
        THEN [upper |-> "None", middle |-> "None", lower |-> "None"]
        ELSE [upper  |-> Last(Both(sma, std)),
              middle |-> Last(sma),
              lower  |-> Last(Both(sma, std))]

CalculateMovingAverages(n) ==
    [ema_20 |-> IF n >= ShortPeriod THEN Last(Ewm(Closes(n))) ELSE "None",
     ema_50 |-> IF n >= LongPeriod THEN Last(Ewm(Closes(n))) ELSE "None",
     sma_20 |-> IF n >= ShortPeriod
                THEN Last(Rolling(Closes(n), ShortPeriod)) ELSE "None",
     sma_50 |-> IF n >= LongPeriod
                THEN Last(Rolling(Closes(n), LongPeriod)) ELSE "None"]

\* the four indicator calls of analyze_symbol, on one closing series
CallCalculateIndicators ==
    /\ call = NoCall
    /\ \E n \in 0..MaxSeries :
        call' = [fn  |-> "calculate_indicators",
                 arg |-> [n |-> n],
                 out |-> [rsi             |-> CalculateRsi(n),
                          macd            |-> CalculateMacd(n),
                          bollinger_bands |-> CalculateBollingerBands(n),
                          moving_averages |-> CalculateMovingAverages(n)]]
    /\ UNCHANGED <<sweep, cancelRequested, attempted, outage, ondemand, legacy, store, openConns>>

---------------------------------------------------------------------------
(* Pattern detection *)

\* detect_patterns of the active service with an exception raised inside
\* its try block: x = 0 none, x = 1 before the support test has appended
\* (lines 156-167), x = 2 after it (lines 175-181).  The handler logs, and
\* the function returns the list as it stands.
DetectPatternsRaising(d, x) ==
    IF x = 0 THEN DetectPatterns(d)
    ELSE IF x = 2 /\ d.n >= PatternMinCandles /\ d.nearLow
         THEN <<"support_test">>
         ELSE <<>>

\* the series and exception points handed to detect_patterns: below and at
\* the 20-candle floor, with the last close near the low or the high of the
\* last ten candles or not
DetectInputs ==
    [err : {FALSE}, n : {MinCandles, PatternMinCandles - 1, PatternMinCandles},
     nearLow : BOOLEAN, nearHigh : BOOLEAN]

CallDetectPatterns ==
    /\ call = NoCall
    /\ \E d \in DetectInputs, x \in 0..2 :
        /\ x = 2 => d.n >= PatternMinCandles
        /\ call' = [fn  |-> "detect_patterns",
                    arg |-> [d |-> d, x |-> x],
                    out |-> [raised |-> FALSE, patterns |-> DetectPatternsRaising(d, x)]]
    /\ UNCHANGED <<sweep, cancelRequested, attempted, outage, ondemand, legacy, store, openConns>>

Window == 10
LegacyPatternMinCandles == 20
HeadAndShouldersMinCandles == 30

\* A series of highs is a function on the indices 0..n-1 of the array.
\* The inputs are flat series with up to MaxSpikes single-candle highs.
SpikePositions == {9, 10, 15, 20, 21, 31, 32, 40}
Heights == {100, 101, 103}
SeriesLengths == {20, 30, 31, 32, 42, 43, MaxSeries}

SpikeChoices(n) ==
    UNION { [S -> Heights] :
            S \in { T \in SUBSET { p \in SpikePositions : p < n } :
                    Cardinality(T) <= MaxSpikes } }

HighSeries(n, spikes) ==
    [i \in 0..(n - 1) |-> IF i \in DOMAIN spikes THEN spikes[i] ELSE 50]

SeriesLen(high) == Cardinality(DOMAIN high)

\* max(high[a:b+1]); a slice is cut at the end of the array
MaxOf(high, a, b) ==
    LET S == { high[i] : i \in a..Min(b, SeriesLen(high) - 1) }
    IN  CHOOSE m \in S : \A v \in S : v <= m

\* the test of lines 134-135 without its second half
IsPeakOverPreceding(high, i) ==
    high[i] > MaxOf(high, i - Window, i - 1)

IsPeak(high, i) ==
    /\ high[i] > MaxOf(high, i - Window, i - 1)
    /\ high[i] > MaxOf(high, i + 1, i + Window)

RECURSIVE Ascending(_)
Ascending(S) ==
    IF S = {} THEN <<>>
    ELSE LET m == CHOOSE x \in S : \A y \in S : x <= y
         IN  <<m>> \o Ascending(S \ {m})

\* the loop of lines 133-136 and 165-168: peaks in index order
ExtractPeaks(high) ==
    LET n  == SeriesLen(high)
        at == Ascending({ i \in Window..(n - Window - 1) : IsPeak(high, i) })
    IN  [k \in 1..Len(at) |-> [index |-> at[k], price |-> high[at[k]]]]

\* peaks.sort(key=price, reverse=True): a stable sort, equal prices keep
\* their index order
RECURSIVE ByPriceDescending(_)
ByPriceDescending(peaks) ==
    IF peaks = <<>> THEN <<>>
    ELSE LET k == CHOOSE k \in 1..Len(peaks) :
                    /\ \A j \in 1..Len(peaks) : peaks[j].price <= peaks[k].price
                    /\ \A j \in 1..(k - 1) : peaks[j].price < peaks[k].price
         IN  <<peaks[k]>> \o
             ByPriceDescending(SubSeq(peaks, 1, k - 1) \o SubSeq(peaks, k + 1, Len(peaks)))

\* confidence in hundredths
DetectHeadAndShoulders(high) ==
    LET peaks == ByPriceDescending(ExtractPeaks(high))
    IN  IF SeriesLen(high) < HeadAndShouldersMinCandles THEN <<>>
        ELSE IF /\ Len(peaks) >= 3
                /\ peaks[1].index > peaks[2].index
                /\ peaks[1].index > peaks[3].index
             THEN << [pattern_type   |-> "head_and_shoulders",
                      confidence     |-> 75,
                      head           |-> peaks[1].index,
                      left_shoulder  |-> peaks[2].index,
                      right_shoulder |-> peaks[3].index] >>
             ELSE <<>>

\* abs(p - q) / p < 0.02
WithinTwoPercent(p, q) ==
    100 * (IF p.price >= q.price THEN p.price - q.price ELSE q.price - p.price)
        < 2 * p.price

\* the nested loops of lines 171-184: break leaves the inner loop, so every
\* peak that has a later peak within 2% contributes one match, with the
\* first such peak
DetectDoubleTopBottom(high) ==
    LET peaks  == ExtractPeaks(high)
        Later(i) == { j \in (i + 1)..Len(peaks) : WithinTwoPercent(peaks[i], peaks[j]) }
        firsts == Ascending({ i \in 1..(Len(peaks) - 1) : Later(i) # {} })
    IN  [k \in 1..Len(firsts) |->
            LET i == firsts[k]
                j == CHOOSE j \in Later(i) : \A l \in Later(i) : j <= l
            IN  [pattern_type |-> "double_top",
                 confidence   |-> 70,
                 first_peak   |-> peaks[i].index,
                 second_peak  |-> peaks[j].index]]

\* detect_patterns of app/services on a series of highs; _detect_triangles
\* returns an empty list
DetectChartPatterns(high) ==
    IF SeriesLen(high) >= LegacyPatternMinCandles
    THEN DetectHeadAndShoulders(high) \o DetectDoubleTopBottom(high)
    ELSE <<>>

\* detect_patterns of app/services has no handler: an exception raised in
\* it leaves the function, and process_symbol ends the run with None
CallDetectChartPatterns ==
    /\ call = NoCall
    /\ \E n \in SeriesLengths, raises \in BOOLEAN : \E spikes \in SpikeChoices(n) :
        LET high == HighSeries(n, spikes)
        IN  call' = [fn  |-> "detect_chart_patterns",
                     arg |-> [n |-> n, spikes |-> spikes, raises |-> raises],
                     out |-> IF raises
                             THEN [raised |-> TRUE, peaks |-> <<>>, patterns |-> <<>>]
                             ELSE [raised   |-> FALSE,
                                   peaks    |-> ExtractPeaks(high),
                                   patterns |-> DetectChartPatterns(high)]]
    /\ UNCHANGED <<sweep, cancelRequested, attempted, outage, ondemand, legacy, store, openConns>>

---------------------------------------------------------------------------
(* Specifications *)

Init ==
    /\ sweep = [pc |-> "created", i |-> 1, dur |-> 0, data |-> NoData]
    /\ cancelRequested = FALSE
    /\ attempted = <<>>
    /\ outage = TRUE
    /\ ondemand = Idle
    /\ legacy = Idle
    /\ store = <<>>
    /\ openConns = 0
    /\ call = NoCall

Next ==
    \/ SweepStart
    \/ SweepFetchCompletes
    \/ SweepResume
    \/ SweepWake
    \/ Cancel
    \/ ReleaseUnreferenced
    \/ AnalyzeRequest
    \/ AnalyzeFetchCompletes
    \/ AnalyzeResume
    \/ AnalyzeReturn

Spec == Init /\ [][Next]_vars

\* The recurring task on its own.  A request handler reaches the task only
\* through the store and the connection count, and every effect it can have
\* there (an INSERT or a connect that raises) is among the fail points.
SweepNext ==
    \/ SweepStart
    \/ SweepFetchCompletes
    \/ SweepResume
    \/ SweepWake
    \/ Cancel
    \/ ReleaseUnreferenced

SweepSpec == Init /\ [][SweepNext]_vars

\* every await of the task returns: the event loop resumes a ready task, a
\* fetch ends with a response or an error, a timer fires
FairSweepSpec ==
    /\ SweepSpec
    /\ WF_vars(SweepStart)
    /\ WF_vars(SweepFetchCompletes)
    /\ WF_vars(SweepResume)
    /\ WF_vars(SweepWake)

\* the two on-demand analyze endpoints, without the recurring task
OnDemandNext ==
    \/ AnalyzeRequest
    \/ AnalyzeFetchCompletes
    \/ AnalyzeResume
    \/ AnalyzeReturn
    \/ LegacyRequest
    \/ LegacyFetchCompletes
    \/ LegacyResume
    \/ LegacyReturn
    \/ ReleaseUnreferenced

OnDemandSpec == Init /\ [][OnDemandNext]_vars

\* single calls of the synchronous functions
CallNext ==
    \/ CallGenerateAnalysis
    \/ CallLegacyGenerateAnalysis
    \/ CallReturns

CallSpec == Init /\ [][CallNext]_vars

\* single requests to the read handlers
ReadNext ==
    \/ GetIndicators
    \/ GetAnalysis
    \/ GetAnalysisSummary
    \/ LegacyGetAnalysisSummary
    \/ CallReturns
    \/ ReleaseUnreferenced

ReadSpec == Init /\ [][ReadNext]_vars

\* single calls of the indicator functions and the pattern detectors
SeriesNext ==
    \/ CallCalculateIndicators
    \/ CallDetectPatterns
    \/ CallDetectChartPatterns
    \/ CallReturns

SeriesSpec == Init /\ [][SeriesNext]_vars

\* the runs of the active service next to each other: on-demand requests
\* during the runs of the recurring task, up to the first pause of the task
\* (after a failed run the task goes on to the next pair at once)
RunsNext ==
    \/ SweepStart
    \/ SweepFetchCompletes
    \/ SweepResume
    \/ AnalyzeRequest
    \/ AnalyzeFetchCompletes
    \/ AnalyzeResume
    \/ AnalyzeReturn
    \/ ReleaseUnreferenced

RunsSpec == Init /\ [][RunsNext]_vars

---------------------------------------------------------------------------
(* Properties *)

InFlight(r) == r.pc \in {"fetching", "ready"}
Short(d) == ~d.err /\ d.n < MinCandles
Enough(d) == ~d.err /\ d.n >= MinCandles
UpTo(k) == [j \in 1..k |-> j]
SweepOver == sweep.pc = "sleeping" /\ sweep.dur # RateLimitSleep
InterSweepSleep == sweep.pc = "sleeping" /\ sweep.dur = SweepSleep
MidSweep == InFlight(sweep) \/ (sweep.pc = "sleeping" /\ sweep.dur = RateLimitSleep)

\* a step of the recurring task that ends a run with an exception: the task
\* was about to resume a run, and it neither went on to the pause that
\* follows a successful analysis nor was cancelled
SweepRunRaises ==
    /\ sweep.pc = "ready"
    /\ sweep' # sweep
    /\ ~cancelRequested'
    /\ ~(sweep'.pc = "sleeping" /\ sweep'.dur = RateLimitSleep)

\* every row of the store belongs to a transaction all of whose rows are
\* there, the indicator row first and the analysis row last
BatchRows(st, b) == SelectSeq(st, LAMBDA r : r.batch = b)
Complete(st) ==
    \A k \in DOMAIN st :
        LET g == BatchRows(st, st[k].batch)
        IN  /\ Len(g) = st[k].rows
            /\ g[1].kind = "indicator"
            /\ g[Len(g)].kind = "analysis"

\* C1: a run of the sweep that raises does not abort the sweep.  The step in
\* which the run raises starts the analysis of the next pair of the matrix
\* (after the last pair it ends the sweep with the inter-sweep sleep); at
\* every moment the pairs attempted so far are exactly the pairs up to the
\* current one, a finished sweep has attempted all of them, and the task
\* never dies of an exception.
C1_SweepSurvivesFailure ==
    /\ [](sweep.pc # "crashed")
    /\ [](MidSweep => attempted = UpTo(sweep.i))
    /\ [](SweepOver => attempted = UpTo(NumSweepPairs))
    /\ [][SweepRunRaises =>
            IF sweep.i < NumSweepPairs
            THEN sweep'.pc = "fetching" /\ sweep'.i = sweep.i + 1
            ELSE sweep'.pc = "sleeping" /\ sweep'.dur = SweepSleep]_vars

\* C1 witness: the fetches of the first two pairs failed and the third
\* pair's analysis is under way in the same sweep
C1_Witness ==
    /\ sweep.pc = "fetching"
    /\ sweep.i = 3
    /\ outage
    /\ attempted = <<1, 2, 3>>

\* C2: an on-demand analyze call in which the fetch, the computation or the
\* persistence failed answers with a failure, never with a success response
\* (with a result or with a null result).
C2_FailureReachesCaller ==
    \A r \in {ondemand, legacy} :
        (r.pc = "responded" /\ r.cause # "none") => (r.status = 500 /\ r.result = "none")

\* C3: a run on a fetched series of fewer than 10 candles ends in failure
\* and writes nothing, for the sweep and for both on-demand handlers; a
\* series of 10 candles or more is never rejected for its length.
C3_ShortSeriesRejected ==
    [][ /\ (sweep.pc = "ready" /\ Short(sweep.data) /\ sweep' # sweep) =>
                (store' = store /\ ~(sweep'.pc = "sleeping" /\ sweep'.dur = RateLimitSleep))
        /\ (ondemand.pc = "ready" /\ Short(ondemand.data) /\ ondemand' # ondemand) =>
                (store' = store /\ ondemand'.status = 500)
        /\ (legacy.pc = "ready" /\ Short(legacy.data) /\ legacy' # legacy) =>
                (store' = store /\ legacy'.status = 500)
        /\ (ondemand.pc = "ready" /\ Enough(ondemand.data)) => ondemand'.cause # "short"
        /\ (legacy.pc = "ready" /\ Enough(legacy.data)) => legacy'.cause # "short"
      ]_vars

\* C4: no two runs for the same (symbol, timeframe) pair are in flight at
\* the same time.
C4_OneRunPerPair ==
    ~(InFlight(sweep) /\ InFlight(ondemand) /\ ondemand.pair = SweepPair(sweep.i))

\* C5: once the task has been cancelled at an await it is terminated: it
\* starts no further pair analysis and writes nothing more, and the store
\* never holds part of a run's rows.
C5_CancelStopsTask ==
    /\ [](cancelRequested => sweep.pc = "cancelled")
    /\ [](Complete(store))
    /\ [][cancelRequested' => (attempted' = attempted /\ store' = store)]_vars

\* C5 witness: the task was cancelled in the middle of a sweep, while the
\* fetch of a later pair was awaited, after an earlier run had committed
C5_Witness ==
    /\ cancelRequested
    /\ sweep.pc = "cancelled"
    /\ sweep.i = 2
    /\ attempted = <<1, 2>>
    /\ Len(store) >= 2

\* C6: no connection opened by a finished run is still open.
C6_NoConnectionLeft == openConns = 0

\* C7: the fetch of the next pair never starts in the step that ends the
\* previous pair's run: a pause lies between any two analyses of a sweep.
C7_PauseBetweenPairs ==
    [][~(sweep.pc = "ready" /\ sweep'.pc = "fetching")]_vars

C9_FullMatrixOncePerSweep ==
    SweepOver =>
        /\ {SweepPair(attempted[k]) : k \in DOMAIN attempted} = FullMatrix
        /\ Len(attempted) = Cardinality(FullMatrix)

\* C9 as amended: a finished sweep has attempted every pair of the task's
\* own matrix, the three symbols by the timeframes 5m, 1h, 4h, exactly
\* once, and a sweep under way has attempted no pair twice.
C9_SweepMatrixOncePerSweep ==
    /\ SweepOver =>
            /\ {SweepPair(attempted[k]) : k \in DOMAIN attempted} = SweepMatrix
            /\ Len(attempted) = Cardinality(SweepMatrix)
    /\ \A j, k \in DOMAIN attempted :
            SweepPair(attempted[j]) = SweepPair(attempted[k]) => j = k

\* C9 witness: a sweep in which some fetch delivered a series is over, nine
\* analyses after it began
C9_Witness ==
    /\ InterSweepSleep
    /\ ~outage
    /\ Len(attempted) = 9

\* C10: while the task is not cancelled, a sweep under way reaches the
\* inter-sweep sleep, the inter-sweep sleep is followed by the first fetch
\* of the next sweep, and no failure terminates the task.
C10_SweepsRecur ==
    /\ [](sweep.pc # "crashed")
    /\ (MidSweep ~> (InterSweepSleep \/ cancelRequested))
    /\ (InterSweepSleep ~> ((sweep.pc = "fetching" /\ sweep.i = 1) \/ cancelRequested))

\* C10 witness: a later sweep has begun: its first fetch is awaited while
\* the store holds rows of an earlier sweep
C10_Witness ==
    /\ sweep.pc = "fetching"
    /\ sweep.i = 1
    /\ ~cancelRequested
    /\ store # <<>>

---------------------------------------------------------------------------
(* Properties of a single run *)

Stages == <<"FETCHING">> \o AfterFetch

\* the stage traces a run may have: all stages in order and then DONE, or
\* the stages up to some point in order and then FAILED
InOrder(t) ==
    \/ t = Stages \o <<"DONE">>
    \/ \E k \in 1..Len(Stages) : t = SubSeq(Stages, 1, k) \o <<"FAILED">>

\* a step that takes the run r from the returned fetch to its response r2
RunEnds(r, r2) == r.pc = "ready" /\ r2.pc = "responded"

StagesRespected(r, r2) ==
    RunEnds(r, r2) =>
        /\ InOrder(r2.stages)
        /\ (r2.cause # "none") => (r2.stages[Len(r2.stages)] = "FAILED")
        /\ (r.data.err \/ Short(r.data)) => ("PERSISTING" \notin Range(r2.stages))

\* C11: every on-demand run goes through fetch, indicators, patterns,
\* synthesis, persistence in that order and ends DONE, or stops at the
\* stage that failed and ends FAILED; a run in which something failed ends
\* FAILED, and a run whose fetch failed or delivered fewer than 10 candles
\* never reaches persistence.
C11_StagesInOrder ==
    [][StagesRespected(ondemand, ondemand') /\ StagesRespected(legacy, legacy')]_vars

IsPrefix(a, b) == Len(a) <= Len(b) /\ SubSeq(b, 1, Len(a)) = a

\* what a run that ends DONE has written, what any other run has written
WritesOf(r, r2, pats, st, st2) ==
    RunEnds(r, r2) =>
        IF r2.result = "analysis"
        THEN st2 = st \o Stamp(st, Rows(r.pair, pats))
        ELSE st2 = st

\* C12: the store only grows at its end; a run that ends DONE has appended
\* one indicator row, one row per detected pattern and one analysis row for
\* its pair, and a run that ends otherwise has appended nothing.
C12_AppendOnlyAllOrNothing ==
    [][ /\ IsPrefix(store, store')
        /\ WritesOf(ondemand, ondemand', DetectPatterns(ondemand.data), store, store')
        /\ WritesOf(legacy, legacy', LegacyDetectPatterns(legacy.data), store, store')
      ]_vars

---------------------------------------------------------------------------
(* Properties of synthesis *)

\* a call of either generate_analysis has returned a result
Synthesized ==
    /\ call.fn \in {"generate_analysis", "legacy_generate_analysis"}
    /\ ~call.out.raised

\* the same, on indicator values that are floats or absent
SynthesizedTyped == Synthesized /\ ~TypeError(call.arg.ind)

\* C13: every result of synthesis has trend_direction among bullish,
\* bearish, sideways and risk_level among low, medium, high, also when
\* synthesis ran into an error.
C13_TrendAndRiskInRange ==
    Synthesized =>
        /\ call.out.trend_direction \in {"bullish", "bearish", "sideways"}
        /\ call.out.risk_level \in {"low", "medium", "high"}

\* C14: trend_direction is bullish exactly when ema_20 > 1.01 * ema_50,
\* bearish exactly when ema_20 < 0.99 * ema_50 and sideways otherwise, also
\* when one of the two is absent.
C14_TrendOnePercentBand ==
    SynthesizedTyped =>
        LET a == call.arg.ind.ema_20
            b == call.arg.ind.ema_50
            both == a.kind = "num" /\ b.kind = "num"
        IN  call.out.trend_direction =
                IF both /\ 100 * a.v > 101 * b.v THEN "bullish"
                ELSE IF both /\ 100 * a.v < 99 * b.v THEN "bearish"
                ELSE "sideways"

\* C15: risk_level is low with no head_and_shoulders or double_top pattern,
\* medium with exactly one and high with two or more.
C15_RiskByPatternCount ==
    SynthesizedTyped =>
        LET k == Cardinality({j \in DOMAIN call.arg.pats :
                     call.arg.pats[j] \in {"head_and_shoulders", "double_top"}})
        IN  call.out.risk_level =
                IF k = 0 THEN "low" ELSE IF k = 1 THEN "medium" ELSE "high"

\* the signals of a result whose reason is among rs
SignalsFor(rs) == SelectSeq(call.out.signals, LAMBDA g : g.reason \in rs)

\* C16: a present RSI below 30 (0 included) gives exactly one buy/strong
\* RSI signal, above 70 exactly one sell/strong RSI signal, from 30 to 70
\* none; an absent RSI gives none.
C16_RsiSignal ==
    SynthesizedTyped =>
        LET r == call.arg.ind.rsi
        IN  SignalsFor({"RSI oversold", "RSI overbought"}) =
                IF r.kind = "num" /\ r.v < 30
                THEN <<Signal("buy", "strong", "RSI oversold")>>
                ELSE IF r.kind = "num" /\ r.v > 70
                THEN <<Signal("sell", "strong", "RSI overbought")>>
                ELSE <<>>

MacdReasons ==
    {"MACD above signal line", "MACD below signal line",
     "MACD above signal line - bullish momentum",
     "MACD below signal line - bearish momentum"}

\* C17: when macd and macd_signal are both present (zero included) exactly
\* one MACD signal is emitted, buy/medium if macd > signal and sell/medium
\* otherwise; when either is absent none is emitted.
C17_MacdSignal ==
    SynthesizedTyped =>
        LET m == call.arg.ind.macd
            g == call.arg.ind.signal
            macdSignals == SignalsFor(MacdReasons)
        IN  IF m.kind = "num" /\ g.kind = "num"
            THEN /\ Len(macdSignals) = 1
                 /\ macdSignals[1].strength = "medium"
                 /\ macdSignals[1].type = IF m.v > g.v THEN "buy" ELSE "sell"
            ELSE macdSignals = <<>>

MaReasons ==
    {"EMA 20 above EMA 50 - upward trend", "EMA 20 below EMA 50 - downward trend"}

\* C18: a buy/medium upward-trend signal is emitted exactly when
\* trend_direction is bullish, a sell/medium downward-trend signal exactly
\* when it is bearish, and no moving-average signal when it is sideways.
C18_MaSignalFollowsTrend ==
    SynthesizedTyped =>
        SignalsFor(MaReasons) =
            IF call.out.trend_direction = "bullish"
            THEN <<Signal("buy", "medium", "EMA 20 above EMA 50 - upward trend")>>
            ELSE IF call.out.trend_direction = "bearish"
            THEN <<Signal("sell", "medium", "EMA 20 below EMA 50 - downward trend")>>
            ELSE <<>>

---------------------------------------------------------------------------
(* Properties of the read handlers *)

\* C19: GET /indicators and GET /analysis, once their query has run, answer
\* 404 when the table holds no row for the requested timeframe and answer
\* 200 with the most recent such row otherwise.
C19_MissingRecordIs404 ==
    (call.fn \in {"get_indicators", "get_analysis"} /\ call.out.connected) =>
        LET table == call.arg.table
            mine  == {k \in DOMAIN table : table[k].timeframe = call.arg.timeframe}
        IN  IF mine = {}
            THEN call.out.status = 404
            ELSE /\ call.out.status = 200
                 /\ call.out.row \in mine
                 /\ \A k \in mine : k <= call.out.row

\* the trend of the most recent row of timeframe tf is trend
LatestIs(table, tf, trend) ==
    \E k \in DOMAIN table :
        /\ table[k].timeframe = tf
        /\ table[k].trend_direction = trend
        /\ \A j \in DOMAIN table : table[j].timeframe = tf => j <= k

\* C20: the sentiment of a summary is bullish exactly when more timeframes
\* have a bullish latest analysis than a bearish one, bearish exactly when
\* more have a bearish one, and neutral otherwise, also when no timeframe
\* has an analysis.
C20_SummarySentiment ==
    (call.fn \in {"get_analysis_summary", "legacy_get_analysis_summary"}
        /\ call.out.status = 200) =>
        LET table == call.arg.table
            bulls == Cardinality({tf \in Range(SupportedTimeframes) : LatestIs(table, tf, "bullish")})
            bears == Cardinality({tf \in Range(SupportedTimeframes) : LatestIs(table, tf, "bearish")})
        IN  /\ (call.out.overall_sentiment = "bullish") <=> (bulls > bears)
            /\ (call.out.overall_sentiment = "bearish") <=> (bears > bulls)
            /\ (call.out.overall_sentiment = "neutral") <=> (bulls = bears)

\* C20 witness: the controller's summary of a table whose older row of a
\* timeframe is bearish and whose latest row of the same timeframe is
\* bullish is bullish
C20_Witness ==
    /\ call.fn = "get_analysis_summary"
    /\ call.out.status = 200
    /\ Len(call.arg.table) = 2
    /\ call.arg.table[1].timeframe = call.arg.table[2].timeframe
    /\ call.arg.table[1].trend_direction = "bearish"
    /\ call.arg.table[2].trend_direction = "bullish"
    /\ call.out.overall_sentiment = "bullish"

---------------------------------------------------------------------------
(* Properties of the indicators and the pattern detectors *)

IndicatorsOf(n) ==
    call.fn = "calculate_indicators" /\ call.arg.n = n

Detected ==
    call.fn = "detect_chart_patterns" /\ ~call.arg.raises

Matches(type) ==
    { k \in 1..Len(call.out.patterns) : call.out.patterns[k].pattern_type = type }

\* C21: for every closing series shorter than 15 candles, a series of
\* exactly 14 included, RSI(14) is absent.
C21_RsiAbsentBelow15 ==
    \A n \in 0..14 : IndicatorsOf(n) => call.out.rsi = "None"

\* C22: each windowed indicator is present exactly when the series is at
\* least as long as its window: macd, signal and histogram are all absent
\* below 26 closes and all numbers from 26 on; the three Bollinger bands are
\* absent exactly below 20; ema_20 and sma_20 are absent exactly below 20,
\* ema_50 and sma_50 exactly below 50, each on its own.
C22_WindowedIndicators ==
    \A n \in 0..MaxSeries : IndicatorsOf(n) =>
        LET o == call.out
            Absent(x)  == x = "None"
            Numeric(x) == x = "float"
        IN  /\ n < 26 => Absent(o.macd.macd) /\ Absent(o.macd.signal) /\ Absent(o.macd.histogram)
            /\ n >= 26 => Numeric(o.macd.macd) /\ Numeric(o.macd.signal) /\ Numeric(o.macd.histogram)
            /\ \A b \in {"upper", "middle", "lower"} :
                /\ Absent(o.bollinger_bands[b]) <=> n < 20
                /\ Numeric(o.bollinger_bands[b]) <=> n >= 20
            /\ \A m \in {"ema_20", "sma_20"} :
                /\ Absent(o.moving_averages[m]) <=> n < 20
                /\ Numeric(o.moving_averages[m]) <=> n >= 20
            /\ \A m \in {"ema_50", "sma_50"} :
                /\ Absent(o.moving_averages[m]) <=> n < 50
                /\ Numeric(o.moving_averages[m]) <=> n >= 50

\* 26 closes: MACD and the 20-candle indicators are numbers, the 50-candle
\* averages are still absent
C22_Witness ==
    /\ IndicatorsOf(26)
    /\ call.out.macd.macd = "float"
    /\ call.out.bollinger_bands.upper = "float"
    /\ call.out.moving_averages.sma_20 = "float"
    /\ call.out.moving_averages.ema_50 = "None"

\* C23: detection on a 30-point series with three well-separated local
\* highs, the middle one the tallest, yields exactly one head_and_shoulders
\* match, with confidence 0.75.
C23_ThirtyPointHeadAndShoulders ==
    Detected /\ call.arg.n = 30 =>
        \A a, b, c \in DOMAIN call.arg.spikes :
            /\ a + 5 <= b /\ b + 5 <= c
            /\ DOMAIN call.arg.spikes = {a, b, c}
            /\ call.arg.spikes[b] > call.arg.spikes[a]
            /\ call.arg.spikes[b] > call.arg.spikes[c]
            => /\ Cardinality(Matches("head_and_shoulders")) = 1
               /\ \A k \in Matches("head_and_shoulders") :
                    call.out.patterns[k].confidence = 75

\* C24: a run on exactly 10 candles with increasing closes leaves rsi, macd,
\* signal, histogram and the Bollinger bands absent, and still evaluates the
\* support and resistance tests: a match is reported when the last close is
\* within 2% of the low or of the high of the window.
C24_TenCandles ==
    /\ IndicatorsOf(10) =>
        /\ call.out.rsi = "None"
        /\ \A f \in {"macd", "signal", "histogram"} : call.out.macd[f] = "None"
        /\ \A b \in {"upper", "middle", "lower"} : call.out.bollinger_bands[b] = "None"
    /\ call.fn = "detect_patterns" /\ call.arg.x = 0 /\ call.arg.d.n = 10 =>
        LET types == Range(call.out.patterns)
        IN  /\ call.arg.d.nearLow <=> "support_test" \in types
            /\ call.arg.d.nearHigh <=> "resistance_test" \in types

\* C25: with three peaks or more, a head_and_shoulders match is emitted
\* only if the index of the highest peak lies strictly between the indices
\* of the second-highest and the third-highest peak; if the highest peak is
\* earlier than both or later than both, none is emitted.
C25_HeadBetweenShoulders ==
    Detected /\ Len(call.out.peaks) >= 3 /\ Matches("head_and_shoulders") # {} =>
        LET s == ByPriceDescending(call.out.peaks)
        IN  \/ s[2].index < s[1].index /\ s[1].index < s[3].index
            \/ s[3].index < s[1].index /\ s[1].index < s[2].index

\* C26: double-top detection stops at the first pair of peaks whose
\* relative price difference is below 2%: at most one double_top match per
\* run, and one exactly when some pair of peaks qualifies.
C26_OneDoubleTop ==
    Detected /\ call.arg.n >= LegacyPatternMinCandles =>
        LET p == call.out.peaks
            qualifies == \E i, j \in 1..Len(p) : i < j /\ WithinTwoPercent(p[i], p[j])
        IN  /\ Cardinality(Matches("double_top")) <= 1
            /\ Cardinality(Matches("double_top")) = 1 <=> qualifies

\* C27: an exception inside pattern detection leaves the run with an empty
\* pattern list: nothing found before the exception is kept, and the
\* exception does not leave the detector.
C27_DetectionFailureYieldsEmptyList ==
    \/ call.fn = "detect_patterns" /\ call.arg.x # 0
    \/ call.fn = "detect_chart_patterns" /\ call.arg.raises
    => ~call.out.raised /\ call.out.patterns = <<>>

\* C29: two distinct peaks extracted with window 10 are more than 10
\* indices apart and every peak index i has 10 <= i <= n - 11; so a series
\* of n points has at most one peak when n < 32 and fewer than three when
\* n < 43, and a 30-point series yields neither a double_top nor a
\* head_and_shoulders match.
C29_PeaksFarApart ==
    Detected =>
        LET p == call.out.peaks
            n == call.arg.n
        IN  /\ \A i, j \in 1..Len(p) :
                i # j => \/ p[i].index - p[j].index > 10
                         \/ p[j].index - p[i].index > 10
            /\ \A i \in 1..Len(p) : 10 <= p[i].index /\ p[i].index <= n - 11
            /\ n < 32 => Len(p) <= 1
            /\ n < 43 => Len(p) < 3
            /\ n = 30 => call.out.patterns = <<>>

\* 43 points are the first length with three peaks, at 10, 21 and 32
C29_Witness ==
    /\ Detected
    /\ call.arg.n = 43
    /\ Len(call.out.peaks) = 3

---------------------------------------------------------------------------
(* Properties of the order of runs *)

\* the task begins the run of a pair in this step
SweepRunStarts ==
    sweep'.pc = "fetching" /\ (sweep.pc # "fetching" \/ sweep'.i # sweep.i)

\* the step that resumes a run after its fetch and carries it to its end
SweepRunEnds == sweep.pc = "ready" /\ sweep'.pc # "ready"

BatchesInOrder(st) ==
    \A j, k \in DOMAIN st : j < k => st[j].batch <= st[k].batch

\* C28: the runs of the recurring task execute one at a time in matrix
\* order: the run of the next pair starts only once the run before it has
\* ended (DONE or FAILED), so successive runs of one pair complete, and
\* append their records, in the order in which they were started.
C28_SweepRunsOneAtATime ==
    /\ [][SweepRunStarts =>
            /\ sweep.pc \in {"created", "ready", "sleeping"}
            /\ sweep'.i = IF sweep.pc = "created" \/ SweepOver THEN 1 ELSE sweep.i + 1
            /\ attempted' = IF sweep'.i = 1 THEN <<1>> ELSE Append(attempted, sweep.i + 1)
       ]_vars
    /\ [][store' # store =>
            /\ SweepRunEnds
            /\ store' = store \o Stamp(store, Rows(SweepPair(sweep.i), DetectPatterns(sweep.data)))
       ]_vars
    /\ [](BatchesInOrder(store))

\* a later sweep has started the run of the first pair again, after the
\* records of that pair's earlier run were appended
C28_Witness ==
    /\ sweep.pc = "fetching"
    /\ sweep.i = 1
    /\ ~cancelRequested
    /\ Len(store) >= 2
    /\ store[1].pair = SweepPair(1)
    /\ store[1].batch = 1

\* the rows of every transaction lie next to each other and belong to one pair
Contiguous(st) ==
    \A j, l \in DOMAIN st :
        j < l /\ st[j].batch = st[l].batch =>
            \A k \in j..l : st[k].batch = st[j].batch /\ st[k].pair = st[j].pair

====
